---- MODULE Spec2Model ----
(***************************************************************************)
(* Locale maintenance scripts of packages/web/public/locales:              *)
(*   align.py       align_json(template, target) and the aligner script    *)
(*   check_keys.py  get_paths(data, current_path) and the key differ       *)
(*                                                                         *)
(* A JSON document is a record [t, v, kv, items]:                          *)
(*   t = "scalar"  a string/number/boolean/null, identified by v           *)
(*   t = "list"    a JSON array, items its elements (documents)            *)
(*   t = "dict"    a JSON object as Python loads it: kv is the sequence of *)
(*                 its entries [k, val] in insertion order, keys distinct  *)
(* A string (a key, a path) is the sequence of its code points.            *)
(***************************************************************************)
EXTENDS Integers, Sequences, FiniteSets, TLC

VARIABLES
    template,        \* the reference document (en/translation.json as loaded)
    target,          \* the target document (fr/translation.json as loaded)
    aligned_data,    \* align_json(template, target), or NotYet
    realigned,       \* align_json(template, aligned_data), or NotYet
    en_keys,         \* check_keys.py:13
    fr_keys,         \* check_keys.py:14
    missing_in_fr,   \* check_keys.py:16
    extra_in_fr,     \* check_keys.py:17
    kpc,             \* check_keys.py: "start", "done" after line 17 ("idle": not run)
    fs,              \* align.py script: the contents of the three files
    fs0,             \* the contents of the files when the script started
    pc,              \* align.py script: position
    handles,         \* align.py script: the open file handles [file, mode]
    data1,           \* align.py:17
    data2,           \* align.py:18
    out_data         \* align.py:20, the script's aligned_data

vars == <<template, target, aligned_data, realigned, en_keys, fr_keys,
          missing_in_fr, extra_in_fr, kpc, fs, fs0, pc, handles, data1, data2,
          out_data>>

alignVars == <<template, target, aligned_data, realigned>>
keysVars == <<en_keys, fr_keys, missing_in_fr, extra_in_fr, kpc>>
scriptVars == <<fs, fs0, pc, handles, data1, data2, out_data>>

----------------------------------------------------------------------------
(* Documents *)

Scalar(n) == [t |-> "scalar", v |-> n, kv |-> <<>>, items |-> <<>>]
List(xs) == [t |-> "list", v |-> 0, kv |-> <<>>, items |-> xs]
Dict(es) == [t |-> "dict", v |-> 0, kv |-> es, items |-> <<>>]
Entry(key, val) == [k |-> key, val |-> val]
NotYet == [t |-> "unset", v |-> 0, kv |-> <<>>, items |-> <<>>]

\* isinstance(x, dict)
IsDict(x) == x.t = "dict"

\* d.keys() as a set;  key in d
Keys(d) == {d.kv[i].k : i \in 1..Len(d.kv)}
HasKey(d, key) == \E i \in 1..Len(d.kv) : d.kv[i].k = key

\* d[key]
GetItem(d, key) == d.kv[CHOOSE i \in 1..Len(d.kv) : d.kv[i].k = key].val

\* SetItem with a new key inserted first instead of last
SetItemFront(d, key, val) ==
    IF HasKey(d, key)
    THEN Dict([i \in 1..Len(d.kv) |->
                 IF d.kv[i].k = key THEN Entry(key, val) ELSE d.kv[i]])
    ELSE Dict(<<Entry(key, val)>> \o d.kv)

\* d[key] = val: a new key goes last, an existing key keeps its position
SetItem(d, key, val) ==
    IF HasKey(d, key)
    THEN Dict([i \in 1..Len(d.kv) |->
                 IF d.kv[i].k = key THEN Entry(key, val) ELSE d.kv[i]])
    ELSE Dict(Append(d.kv, Entry(key, val)))

----------------------------------------------------------------------------
(* align.py: align_json *)

RECURSIVE align_json(_, _)
RECURSIVE TemplateLoop(_, _, _, _)
RECURSIVE TargetLoop(_, _, _)

\* the first loop storing the template's value: new_obj[key] = template[key]
TemplateLoopTplValue(tpl, tgt, i, new_obj) ==
    IF i > Len(tpl.kv) THEN new_obj
    ELSE LET key == tpl.kv[i].k IN
         TemplateLoop(tpl, tgt, i + 1,
             IF HasKey(tgt, key)
             THEN SetItem(new_obj, key, GetItem(tpl, key))
             ELSE new_obj)

\* the first loop walking the target's keys: for key in target.keys(): if key in template
TemplateLoopByTarget(tpl, tgt, i, new_obj) ==
    IF i > Len(tgt.kv) THEN new_obj
    ELSE LET key == tgt.kv[i].k IN
         TemplateLoop(tpl, tgt, i + 1,
             IF HasKey(tpl, key)
             THEN SetItem(new_obj, key, align_json(GetItem(tpl, key), GetItem(tgt, key)))
             ELSE new_obj)

\* align.py:6-8, the iterations from template's i-th key on
TemplateLoop(tpl, tgt, i, new_obj) ==
    IF i > Len(tpl.kv) THEN new_obj
    ELSE LET key == tpl.kv[i].k IN
         TemplateLoop(tpl, tgt, i + 1,
             IF HasKey(tgt, key)
             THEN SetItem(new_obj, key, align_json(GetItem(tpl, key), GetItem(tgt, key)))
             ELSE new_obj)

\* the second loop left out: target-only keys are never inserted
TargetLoopSkip(tgt, i, new_obj) == new_obj

\* the second loop walking the target's keys from the last to the first
TargetLoopReversed(tgt, i, new_obj) ==
    IF i > Len(tgt.kv) THEN new_obj
    ELSE LET key == tgt.kv[Len(tgt.kv) + 1 - i].k IN
         TargetLoop(tgt, i + 1,
             IF ~HasKey(new_obj, key)
             THEN SetItem(new_obj, key, GetItem(tgt, key))
             ELSE new_obj)

\* align.py:9-11, the iterations from target's i-th key on
TargetLoop(tgt, i, new_obj) ==
    IF i > Len(tgt.kv) THEN new_obj
    ELSE LET key == tgt.kv[i].k IN
         TargetLoop(tgt, i + 1,
             IF ~HasKey(new_obj, key)
             THEN SetItem(new_obj, key, GetItem(tgt, key))
             ELSE new_obj)

\* align_json returning the template at a non-mapping: return template
align_jsonReturnsTemplate(tpl, tgt) ==
    IF IsDict(tpl) /\ IsDict(tgt)
    THEN TargetLoop(tgt, 1, TemplateLoop(tpl, tgt, 1, Dict(<<>>)))
    ELSE tpl

\* align.py:3-13
align_json(tpl, tgt) ==
    IF IsDict(tpl) /\ IsDict(tgt)
    THEN TargetLoop(tgt, 1, TemplateLoop(tpl, tgt, 1, Dict(<<>>)))
    ELSE tgt

----------------------------------------------------------------------------
(* Bounded input documents *)

KeyA == <<97>>
KeyB == <<98>>
KeyC == <<99>>
KeyD == <<100>>
KeyX == <<120>>
KeyY == <<121>>

MaxKeys == 3

\* a JSON array holding an object, the one list value of the inputs
ListLeaf == List(<<Dict(<<Entry(KeyB, Scalar(1)), Entry(KeyA, Scalar(2))>>)>>)

RECURSIVE EntriesN(_, _, _, _)
\* the documents with exactly n keys (keys inside a list not counted)
ValsN(n, keys, leaves) ==
    (IF n = 0 THEN leaves ELSE {}) \cup {Dict(es) : es \in EntriesN(n, keys, keys, leaves)}
\* the entry sequences with n keys in all, top-level keys distinct and from avail
EntriesN(n, avail, keys, leaves) ==
    IF n = 0 THEN {<<>>}
    ELSE UNION {UNION {UNION {
            {<<Entry(key, val)>> \o rest :
                rest \in EntriesN(n - 1 - j, avail \ {key}, keys, leaves)} :
            val \in ValsN(j, keys, leaves)} :
            j \in 0..(n - 1)} :
            key \in avail}
DocsUpTo(n, keys, leaves) == UNION {ValsN(j, keys, leaves) : j \in 0..n}

\* the documents of the sample runs: {"a": {"b": 1, "c": 2}} with
\* {"a": {"c": 99, "d": 4}}, and {"x": 1} with {"x": {"y": 2}}
Sample1Reference ==
    Dict(<<Entry(KeyA, Dict(<<Entry(KeyB, Scalar(1)), Entry(KeyC, Scalar(2))>>))>>)
Sample1Target ==
    Dict(<<Entry(KeyA, Dict(<<Entry(KeyC, Scalar(99)), Entry(KeyD, Scalar(4))>>))>>)
Sample2Reference == Dict(<<Entry(KeyX, Scalar(1))>>)
Sample2Target == Dict(<<Entry(KeyX, Dict(<<Entry(KeyY, Scalar(2))>>))>>)

\* every document of at most MaxKeys keys over two keys, and the samples
TemplateDocs ==
    DocsUpTo(MaxKeys, {KeyA, KeyB}, {Scalar(1)}) \cup {Sample1Reference, Sample2Reference}
TargetDocs ==
    DocsUpTo(MaxKeys, {KeyA, KeyB}, {Scalar(1), Scalar(2), ListLeaf})
        \cup {Sample1Target, Sample2Target}

----------------------------------------------------------------------------
(* Specification of align_json applied to bounded inputs *)

KeysIdle ==
    /\ en_keys = {} /\ fr_keys = {}
    /\ missing_in_fr = <<>> /\ extra_in_fr = <<>> /\ kpc = "idle"
ScriptIdle ==
    /\ fs = <<>> /\ fs0 = <<>> /\ pc = "idle" /\ handles = {}
    /\ data1 = NotYet /\ data2 = NotYet /\ out_data = NotYet
AlignIdle ==
    /\ template = NotYet /\ target = NotYet /\ aligned_data = NotYet /\ realigned = NotYet

InitAlign ==
    /\ template \in TemplateDocs
    /\ target \in TargetDocs
    /\ aligned_data = NotYet
    /\ realigned = NotYet
    /\ KeysIdle /\ ScriptIdle

\* aligned_data = align_json(template, target); where check_keys.py runs on the
\* same two documents, after it
Align ==
    /\ kpc \in {"idle", "done"}
    /\ aligned_data = NotYet
    /\ aligned_data' = align_json(template, target)
    /\ UNCHANGED <<template, target, realigned>>
    /\ UNCHANGED keysVars /\ UNCHANGED scriptVars

\* the aligner run again on its own output
Realign ==
    /\ aligned_data # NotYet /\ realigned = NotYet
    /\ realigned' = align_json(template, aligned_data)
    /\ UNCHANGED <<template, target, aligned_data>>
    /\ UNCHANGED keysVars /\ UNCHANGED scriptVars

NextAlign == Align \/ Realign
SpecAlign == InitAlign /\ [][NextAlign]_vars

\* for every document D: align_json(D, D)
InitSelf ==
    /\ target \in TargetDocs
    /\ template = target
    /\ aligned_data = NotYet
    /\ realigned = NotYet
    /\ KeysIdle /\ ScriptIdle

SpecSelf == InitSelf /\ [][NextAlign]_vars

----------------------------------------------------------------------------
(* Properties of align_json *)

Aligned == aligned_data # NotYet
BothDicts(x, y) == IsDict(x) /\ IsDict(y)
SharedKeys(x, y) == Keys(x) \cap Keys(y)
KeySeq(d) == [i \in 1..Len(d.kv) |-> d.kv[i].k]

RECURSIVE KeySetOK(_, _, _)
\* at this level and every level below reached through a shared key: the output
\* is a mapping whose keys are the target's, each once
KeySetOK(tpl, tgt, out) ==
    BothDicts(tpl, tgt) =>
        /\ IsDict(out)
        /\ Len(out.kv) = Cardinality(Keys(out))
        /\ Keys(tgt) \subseteq Keys(out)
        /\ (Keys(tpl) \ Keys(tgt)) \cap Keys(out) = {}
        /\ Keys(out) = Keys(tgt)
        /\ \A key \in SharedKeys(tpl, tgt) :
              KeySetOK(GetItem(tpl, key), GetItem(tgt, key), GetItem(out, key))

\* C1: at every pair of corresponding mapping levels reached by align_json the
\* output's key set equals the target's: no target key is lost and no
\* reference-only key survives.
C1_KeySetIsTargets == Aligned => KeySetOK(template, target, aligned_data)

\* a nested level with a reference-only key, a shared key and a target-only key
C1_Witness ==
    /\ Aligned /\ BothDicts(template, target)
    /\ \E key \in SharedKeys(template, target) :
          LET tpl == GetItem(template, key)
              tgt == GetItem(target, key)
          IN /\ BothDicts(tpl, tgt)
             /\ Keys(tpl) \ Keys(tgt) # {}
             /\ Keys(tgt) \ Keys(tpl) # {}
             /\ SharedKeys(tpl, tgt) # {}
             /\ Keys(GetItem(aligned_data, key)) = Keys(tgt)

RECURSIVE KeyPaths(_)
\* the key sequences leading from the root to a node through mappings only
KeyPaths(d) ==
    {<<>>} \cup
    (IF IsDict(d)
     THEN UNION {{<<key>> \o p : p \in KeyPaths(GetItem(d, key))} : key \in Keys(d)}
     ELSE {})
RECURSIVE ValueAt(_, _)
ValueAt(d, p) == IF p = <<>> THEN d ELSE ValueAt(GetItem(d, Head(p)), Tail(p))

\* C2: align_json(reference, target) has exactly the target's key paths and, at
\* every path whose value in target is not a mapping, the target's value.
C2_TargetValuesPreserved ==
    Aligned =>
        /\ KeyPaths(aligned_data) = KeyPaths(target)
        /\ \A p \in KeyPaths(target) :
              ~IsDict(ValueAt(target, p)) => ValueAt(aligned_data, p) = ValueAt(target, p)

\* reference and target differ in a leaf under a shared key of a nested level
C2_Witness ==
    /\ Aligned /\ BothDicts(template, target)
    /\ \E key \in SharedKeys(template, target) :
          /\ BothDicts(GetItem(template, key), GetItem(target, key))
          /\ \E k2 \in SharedKeys(GetItem(template, key), GetItem(target, key)) :
                /\ ~IsDict(GetItem(GetItem(target, key), k2))
                /\ GetItem(GetItem(target, key), k2) # GetItem(GetItem(template, key), k2)
                /\ GetItem(GetItem(aligned_data, key), k2) = GetItem(GetItem(target, key), k2)

RECURSIVE KeyOrderOK(_, _, _)
\* the output's keys: the shared keys in reference order, then the target-only
\* keys in target order; and so at every level below reached through a shared key
KeyOrderOK(tpl, tgt, out) ==
    BothDicts(tpl, tgt) =>
        LET InTarget(key) == key \in Keys(tgt)
            NotInTemplate(key) == key \notin Keys(tpl)
        IN /\ IsDict(out)
           /\ KeySeq(out) = SelectSeq(KeySeq(tpl), InTarget)
                               \o SelectSeq(KeySeq(tgt), NotInTemplate)
           /\ \A key \in SharedKeys(tpl, tgt) :
                 KeyOrderOK(GetItem(tpl, key), GetItem(tgt, key), GetItem(out, key))

\* C3: the key order of align_json(reference, target) is the shared keys in
\* reference order followed by the target-only keys in target order, at every
\* level where both sides are mappings.
C3_KeyOrder == Aligned => KeyOrderOK(template, target, aligned_data)

\* a nested level where the target lists a target-only key before a shared
\* key and the reference has a key of its own: the output lists the shared key
\* first
C3_Witness ==
    /\ Aligned /\ BothDicts(template, target)
    /\ \E key \in SharedKeys(template, target) :
          LET tpl == GetItem(template, key)
              tgt == GetItem(target, key)
              out == GetItem(aligned_data, key)
          IN /\ BothDicts(tpl, tgt)
             /\ Keys(tpl) \ Keys(tgt) # {}
             /\ Len(tgt.kv) = 2
             /\ tgt.kv[1].k \notin Keys(tpl) /\ tgt.kv[2].k \in Keys(tpl)
             /\ KeySeq(out) = <<tgt.kv[2].k, tgt.kv[1].k>>

\* the first sample run: key b dropped, key order c then d
Sample1Aligned ==
    (Aligned /\ template = Sample1Reference /\ target = Sample1Target)
        => aligned_data =
              Dict(<<Entry(KeyA, Dict(<<Entry(KeyC, Scalar(99)), Entry(KeyD, Scalar(4))>>))>>)

\* C4: for every document D, align_json(D, D) equals D, key order included.
C4_SelfIdentity == (Aligned /\ template = target) => aligned_data = target

\* a document with a nested mapping of two keys aligned with itself
C4_Witness ==
    /\ Aligned /\ template = target /\ IsDict(target)
    /\ \E key \in Keys(target) :
          IsDict(GetItem(target, key)) /\ Len(GetItem(target, key).kv) >= 2

RECURSIVE VerbatimOK(_, _, _)
\* wherever the recursion meets a non-mapping on either side, the output is the
\* target's value there
VerbatimOK(tpl, tgt, out) ==
    IF BothDicts(tpl, tgt)
    THEN \A key \in SharedKeys(tpl, tgt) :
            /\ IsDict(out) /\ HasKey(out, key)
            /\ VerbatimOK(GetItem(tpl, key), GetItem(tgt, key), GetItem(out, key))
    ELSE out = tgt

\* C8: where reference or target is not a mapping (at the root or at a shared
\* key reached by the recursion) align_json returns the target's value there
\* unchanged, the key order of mappings inside it included.
C8_NonMappingVerbatim == Aligned => VerbatimOK(template, target, aligned_data)

\* the second sample run: the reference holds a leaf where the target holds a
\* mapping, and the mapping is the output's value there
C8_Witness ==
    /\ Aligned
    /\ template = Sample2Reference /\ target = Sample2Target
    /\ GetItem(aligned_data, KeyX) = Dict(<<Entry(KeyY, Scalar(2))>>)

\* C10: align_json(reference, align_json(reference, target)) equals
\* align_json(reference, target), key order included.
C10_Idempotent == realigned # NotYet => realigned = aligned_data

\* a second run on an output that differs from the target in key order
C10_Witness ==
    /\ realigned # NotYet
    /\ aligned_data # target
    /\ BothDicts(template, target)
    /\ Keys(target) \ Keys(template) # {}

----------------------------------------------------------------------------
(* check_keys.py: get_paths and the difference lists *)

\* the separator of check_keys.py:7, the code point of '.'
Dot == 46

\* check_keys.py:7   f"{current_path}.{k}" if current_path else k
NewPath(current_path, key) ==
    IF current_path # <<>> THEN current_path \o <<Dot>> \o key ELSE key

RECURSIVE get_paths(_, _)

\* get_paths recursing with the old prefix: paths.update(get_paths(v, current_path))
get_pathsOldPrefix(data, current_path) ==
    IF IsDict(data)
    THEN UNION {{NewPath(current_path, data.kv[i].k)}
                   \cup get_paths(data.kv[i].val, current_path) :
                i \in 1..Len(data.kv)}
    ELSE {}

\* check_keys.py:3-10
get_paths(data, current_path) ==
    IF IsDict(data)
    THEN UNION {{NewPath(current_path, data.kv[i].k)}
                   \cup get_paths(data.kv[i].val, NewPath(current_path, data.kv[i].k)) :
                i \in 1..Len(data.kv)}
    ELSE {}

\* str.__lt__: code point by code point, a proper prefix first
RECURSIVE StrLess(_, _)
StrLess(a, b) ==
    IF a = <<>> THEN b # <<>>
    ELSE IF b = <<>> THEN FALSE
    ELSE IF Head(a) = Head(b) THEN StrLess(Tail(a), Tail(b))
    ELSE Head(a) < Head(b)

\* sorted(list(S)) for a set of strings
RECURSIVE Sorted(_)
Sorted(S) ==
    IF S = {} THEN <<>>
    ELSE LET least == CHOOSE x \in S : \A y \in S \ {x} : StrLess(x, y)
         IN <<least>> \o Sorted(S \ {least})

\* check_keys.py:16
Missing(en, fr) == Sorted(en \ fr)

\* the second list computed like the first: sorted(list(en_keys - fr_keys))
ExtraLikeMissing(en, fr) == Sorted(en \ fr)

\* check_keys.py:17
Extra(en, fr) == Sorted(fr \ en)

KeyEmpty == <<>>
KeyAdotB == <<97, 46, 98>>

MaxPathKeys == 2

\* the documents of the sample diff: {"a": 1, "b": {"c": 2}} with
\* {"a": 1, "b": {"d": 3}}
Sample3Reference ==
    Dict(<<Entry(KeyA, Scalar(1)), Entry(KeyB, Dict(<<Entry(KeyC, Scalar(2))>>))>>)
Sample3Target ==
    Dict(<<Entry(KeyA, Scalar(1)), Entry(KeyB, Dict(<<Entry(KeyD, Scalar(3))>>))>>)

PathKeys == {KeyA, KeyB, KeyEmpty, KeyAdotB}
\* every document of at most MaxPathKeys keys over the four keys, and the
\* samples; the reference's leaves are scalars, the target's are lists holding
\* a mapping
ReferencePathDocs ==
    DocsUpTo(MaxPathKeys, PathKeys, {Scalar(1)}) \cup {Sample1Reference, Sample3Reference}
TargetPathDocs ==
    DocsUpTo(MaxPathKeys, PathKeys, {ListLeaf}) \cup {Sample1Target, Sample3Target}

\* the two documents both scripts read
InitKeys ==
    /\ template \in ReferencePathDocs
    /\ target \in TargetPathDocs
    /\ aligned_data = NotYet
    /\ realigned = NotYet
    /\ en_keys = {} /\ fr_keys = {}
    /\ missing_in_fr = <<>> /\ extra_in_fr = <<>>
    /\ kpc = "start"
    /\ ScriptIdle

\* check_keys.py:12-17, the script up to its report
CheckKeys ==
    /\ kpc = "start"
    /\ en_keys' = get_paths(template, <<>>)
    /\ fr_keys' = get_paths(target, <<>>)
    /\ missing_in_fr' = Missing(en_keys', fr_keys')
    /\ extra_in_fr' = Extra(en_keys', fr_keys')
    /\ kpc' = "done"
    /\ UNCHANGED alignVars /\ UNCHANGED scriptVars

NextKeys == CheckKeys \/ Align
SpecKeys == InitKeys /\ [][NextKeys]_vars

----------------------------------------------------------------------------
(* Properties of get_paths and the difference lists *)

Range(seq) == {seq[i] : i \in 1..Len(seq)}

\* a before b in lexicographic order: equal up to a position where a ends and b
\* goes on, or where a's code point is the smaller
LexBefore(a, b) ==
    \E i \in 1..(Len(a) + 1) :
        /\ \A j \in 1..(i - 1) : j <= Len(b) /\ a[j] = b[j]
        /\ \/ i = Len(a) + 1 /\ Len(b) >= i
           \/ i <= Len(a) /\ i <= Len(b) /\ a[i] < b[i]

\* seq lists exactly the elements of S, each once, in ascending order
IsSortedListOf(seq, S) ==
    /\ Range(seq) = S
    /\ Len(seq) = Cardinality(S)
    /\ \A i \in 1..Len(seq) : \A j \in 1..Len(seq) : i < j => LexBefore(seq[i], seq[j])

\* C6: missing lists exactly the reference paths not in the target set and extra
\* the target paths not in the reference set, each once in ascending
\* lexicographic order; so the lists are disjoint, hold no common path, and with
\* the common paths make up the union of both sets.
C6_DiffLists ==
    kpc = "done" =>
        /\ IsSortedListOf(missing_in_fr, en_keys \ fr_keys)
        /\ IsSortedListOf(extra_in_fr, fr_keys \ en_keys)
        /\ Range(missing_in_fr) \cap Range(extra_in_fr) = {}
        /\ (en_keys \cap fr_keys) \cap (Range(missing_in_fr) \cup Range(extra_in_fr)) = {}
        /\ Range(missing_in_fr) \cup Range(extra_in_fr) \cup (en_keys \cap fr_keys)
              = en_keys \cup fr_keys

\* the missing list holds two paths, one of them the dotted path of a nested
\* key, the extra list is not empty and a path is common to both documents
C6_Witness ==
    /\ kpc = "done"
    /\ Len(missing_in_fr) >= 2 /\ Len(extra_in_fr) >= 1
    /\ \E i \in 1..Len(missing_in_fr) : Len(missing_in_fr[i]) >= 3
    /\ en_keys \cap fr_keys # {}

\* the sample diff: missing = ["b.c"], extra = ["b.d"]
Sample3Diff ==
    (kpc = "done" /\ template = Sample3Reference /\ target = Sample3Target)
        => /\ missing_in_fr = <<KeyB \o <<Dot>> \o KeyC>>
           /\ extra_in_fr = <<KeyB \o <<Dot>> \o KeyD>>

\* '.'.join(p) for a non-empty sequence of keys
RECURSIVE DotJoin(_)
DotJoin(p) == IF Len(p) = 1 THEN p[1] ELSE p[1] \o <<Dot>> \o DotJoin(Tail(p))

\* one dotted path for every key of every mapping reachable through mappings
DottedPaths(d) == {DotJoin(p) : p \in KeyPaths(d) \ {<<>>}}

\* C7: get_paths(document) is the set of the dotted paths of the keys of every
\* mapping reachable from the root through mappings only; nothing inside a
\* non-mapping value adds a path and a non-mapping root yields the empty set.
C7_PathsAreDottedKeyPaths ==
    kpc = "done" =>
        /\ en_keys = DottedPaths(template)
        /\ fr_keys = DottedPaths(target)

\* the keys of the mappings reachable through mappings only
AllKeys(d) == UNION {Range(p) : p \in KeyPaths(d)}

\* C7 where no key is the empty string (not a claim's formula: the reach of
\* the divergence)
PathsAreDottedWithoutEmptyKeys ==
    (kpc = "done" /\ KeyEmpty \notin AllKeys(template)) => en_keys = DottedPaths(template)

RECURSIVE SharedPortion(_, _)
\* the output cut down to what is reached through keys the reference has too;
\* where the two sides are not both mappings nothing below is reached
SharedPortion(tpl, out) ==
    IF BothDicts(tpl, out)
    THEN LET InTemplate(e) == HasKey(tpl, e.k)
             sel == SelectSeq(out.kv, InTemplate)
         IN Dict([i \in 1..Len(sel) |->
                    Entry(sel[i].k, SharedPortion(GetItem(tpl, sel[i].k), sel[i].val))])
    ELSE Scalar(0)

\* the paths of the shared-key portion of align_json(reference, target)
SharedPaths == get_paths(SharedPortion(template, aligned_data), <<>>)

\* a key that is not empty and holds no separator
PlainKey(key) == key # <<>> /\ \A i \in 1..Len(key) : key[i] # Dot
PlainKeys(d) == \A key \in AllKeys(d) : PlainKey(key)

PathsAndAligned == kpc = "done" /\ Aligned

\* C5 as amended: every path of the shared-key portion of
\* align_json(reference, target), as get_paths computes it, is in
\* get_paths(reference) and in get_paths(target); the two sets are equal when
\* no mapping key of either document is empty or holds a '.'.
C5_SharedPathsAmended ==
    PathsAndAligned =>
        /\ SharedPaths \subseteq en_keys \cap fr_keys
        /\ (PlainKeys(template) /\ PlainKeys(target)) => SharedPaths = en_keys \cap fr_keys

\* plain keys, a shared path of a nested key, and on either side a path that is
\* not shared
C5_Witness ==
    /\ PathsAndAligned
    /\ PlainKeys(template) /\ PlainKeys(target)
    /\ \E p \in SharedPaths : Len(p) = 3
    /\ en_keys \ fr_keys # {} /\ fr_keys \ en_keys # {}
    /\ SharedPaths = en_keys \cap fr_keys

\* C5 as claimed, keys holding the separator included: get_paths(reference) \cap
\* get_paths(target) equals the paths of the shared-key portion of
\* align_json(reference, target).  Stated for documents without an empty key,
\* where get_paths joins every key with the separator.
C5_SharedPathsAnyKeys ==
    (PathsAndAligned /\ KeyEmpty \notin AllKeys(template) \cup AllKeys(target))
        => SharedPaths = en_keys \cap fr_keys

----------------------------------------------------------------------------
(* align.py:15-24, the aligner script *)

\* the three paths of align.py:15, 16 and 22
Files == {"en", "fr", "out"}

\* what a path holds: no file, text json.load rejects (syntax or encoding),
\* a document's JSON text, or the text written so far by an unfinished dump
Absent == [kind |-> "absent", doc |-> NotYet]
Malformed == [kind |-> "malformed", doc |-> NotYet]
Json(d) == [kind |-> "json", doc |-> d]
Partial == [kind |-> "partial", doc |-> NotYet]

Reader(file) == [file |-> file, mode |-> "r"]
Writer(file) == [file |-> file, mode |-> "w"]

MaxScriptKeys == 1
ScriptDocs == DocsUpTo(MaxScriptKeys, {KeyA, KeyB}, {Scalar(1), Scalar(2)})

InitScript ==
    /\ fs \in [Files -> {Absent, Malformed} \cup {Json(d) : d \in ScriptDocs}]
    /\ fs["out"].kind # "malformed"
    /\ fs0 = fs
    /\ pc = "start"
    /\ handles = {}
    /\ data1 = NotYet /\ data2 = NotYet /\ out_data = NotYet
    /\ AlignIdle /\ KeysIdle

\* align.py:15  open('en/translation.json', 'r'); a missing file raises
Open1 ==
    /\ pc = "start"
    /\ IF fs["en"].kind = "absent"
       THEN pc' = "aborted" /\ UNCHANGED handles
       ELSE pc' = "opened1" /\ handles' = handles \cup {Reader("en")}
    /\ UNCHANGED <<fs, fs0, data1, data2, out_data>>
    /\ UNCHANGED alignVars /\ UNCHANGED keysVars

\* Open2 without the with statement's exit: f1 stays open when open fails
Open2LeavesOpen ==
    /\ pc = "opened1"
    /\ IF fs["fr"].kind = "absent"
       THEN pc' = "aborted" /\ UNCHANGED handles
       ELSE pc' = "opened2" /\ handles' = handles \cup {Reader("fr")}
    /\ UNCHANGED <<fs, fs0, data1, data2, out_data>>
    /\ UNCHANGED alignVars /\ UNCHANGED keysVars

\* align.py:16  open('fr/translation.json', 'r'); when it raises, the with
\* statement closes f1
Open2 ==
    /\ pc = "opened1"
    /\ IF fs["fr"].kind = "absent"
       THEN pc' = "aborted" /\ handles' = handles \ {Reader("en")}
       ELSE pc' = "opened2" /\ handles' = handles \cup {Reader("fr")}
    /\ UNCHANGED <<fs, fs0, data1, data2, out_data>>
    /\ UNCHANGED alignVars /\ UNCHANGED keysVars

\* align.py:17  data1 = json.load(f1); when it raises, the with statement
\* closes f2 and f1
Load1 ==
    /\ pc = "opened2"
    /\ IF fs["en"].kind = "json"
       THEN pc' = "loaded1" /\ data1' = fs["en"].doc /\ UNCHANGED handles
       ELSE pc' = "aborted" /\ handles' = {} /\ UNCHANGED data1
    /\ UNCHANGED <<fs, fs0, data2, out_data>>
    /\ UNCHANGED alignVars /\ UNCHANGED keysVars

\* align.py:18  data2 = json.load(f2)
Load2 ==
    /\ pc = "loaded1"
    /\ IF fs["fr"].kind = "json"
       THEN pc' = "loaded2" /\ data2' = fs["fr"].doc /\ UNCHANGED handles
       ELSE pc' = "aborted" /\ handles' = {} /\ UNCHANGED data2
    /\ UNCHANGED <<fs, fs0, data1, out_data>>
    /\ UNCHANGED alignVars /\ UNCHANGED keysVars

\* the end of the with statement of align.py:15-18: f2 and f1 are closed
CloseInputs ==
    /\ pc = "loaded2"
    /\ handles' = handles \ {Reader("en"), Reader("fr")}
    /\ pc' = "closed"
    /\ UNCHANGED <<fs, fs0, data1, data2, out_data>>
    /\ UNCHANGED alignVars /\ UNCHANGED keysVars

\* align.py:20
AlignData ==
    /\ pc = "closed"
    /\ out_data' = align_json(data1, data2)
    /\ pc' = "aligned"
    /\ UNCHANGED <<fs, fs0, handles, data1, data2>>
    /\ UNCHANGED alignVars /\ UNCHANGED keysVars

\* align.py:22  open('fr_aligned.json', 'w') creates or truncates the file, or
\* raises OSError and changes nothing
OpenOut ==
    /\ pc = "aligned"
    /\ \/ /\ fs' = [fs EXCEPT !["out"] = Partial]
          /\ handles' = handles \cup {Writer("out")}
          /\ pc' = "outopen"
       \/ /\ pc' = "aborted"
          /\ UNCHANGED <<fs, handles>>
    /\ UNCHANGED <<fs0, data1, data2, out_data>>
    /\ UNCHANGED alignVars /\ UNCHANGED keysVars

\* align.py:24  json.dump(aligned_data, f_out, ...) writes the document, or a
\* write raises OSError; either way the with statement then closes f_out
DumpAndClose ==
    /\ pc = "outopen"
    /\ \/ fs' = [fs EXCEPT !["out"] = Json(out_data)] /\ pc' = "done"
       \/ fs' = [fs EXCEPT !["out"] = Partial] /\ pc' = "aborted"
    /\ handles' = handles \ {Writer("out")}
    /\ UNCHANGED <<fs0, data1, data2, out_data>>
    /\ UNCHANGED alignVars /\ UNCHANGED keysVars

NextScript ==
    \/ Open1 \/ Open2 \/ Load1 \/ Load2 \/ CloseInputs
    \/ AlignData \/ OpenOut \/ DumpAndClose
SpecScript == InitScript /\ [][NextScript]_vars

----------------------------------------------------------------------------
(* Properties of the aligner script *)

Terminated == pc \in {"done", "aborted"}
InputsGood == fs0["en"].kind = "json" /\ fs0["fr"].kind = "json"
OutputTouched == Writer("out") \in handles \/ fs["out"] # fs0["out"]

\* C9: the output file is opened for writing only after both inputs have been
\* opened, parsed and closed and align_json has returned; with an input missing
\* or unparsable the run aborts and the output file is neither created nor
\* modified; no input file is written to; when the run has ended, with success
\* or by an abort, no file handle is open.
C9_ScriptFiles ==
    /\ OutputTouched =>
          /\ data1 = fs0["en"].doc /\ data2 = fs0["fr"].doc
          /\ fs0["en"].kind = "json" /\ fs0["fr"].kind = "json"
          /\ Reader("en") \notin handles /\ Reader("fr") \notin handles
          /\ out_data = align_json(data1, data2)
    /\ ~InputsGood =>
          /\ fs["out"] = fs0["out"]
          /\ pc # "done"
          /\ (~ENABLED NextScript) => pc = "aborted"
    /\ fs["en"] = fs0["en"] /\ fs["fr"] = fs0["fr"]
    /\ Writer("en") \notin handles /\ Writer("fr") \notin handles
    /\ (~ENABLED NextScript) => Terminated
    /\ Terminated => handles = {}

\* an abort on an unparsable target file after both inputs were opened, with
\* the output file as it was
C9_Witness ==
    /\ pc = "aborted"
    /\ fs0["en"].kind = "json" /\ fs0["fr"].kind = "malformed"
    /\ data1 # NotYet
    /\ fs0["out"].kind = "json"
    /\ fs["out"] = fs0["out"]

====
